---- MODULE Spec2Model ----
(***************************************************************************)
(* SystemInfoTool (sys_info_tool.py): the scan-and-present workflow of     *)
(* SystemInfoGUI.  One foreground context (the Tk main loop) owns the      *)
(* widgets; start_scan launches a daemon thread running scan_system, which *)
(* hands its results back through root.after callbacks.                    *)
(***************************************************************************)
EXTENDS Integers, Sequences, FiniteSets, TLC

VARIABLES
    text,          \* text_widgets[name]: the content of each tab's text widget
    wstate,        \* text_widgets[name]: the widget's state option (normal / disabled)
    scan_button,   \* scan_button's state option
    status_label,  \* status_label's text
    threads,       \* the threads start_scan has started, each at its place in scan_system
    after_queue,   \* callbacks registered with root.after(0, ...) and not yet run
    file,          \* the sections that are whole in the file of the latest export_to_text
    event,         \* the event the Tk main loop dispatched last
    invoked,       \* a function called on its own: its name and the inputs it reads
    returned       \* what that call returned

vars == <<text, wstate, scan_button, status_label, threads, after_queue, file, event,
          invoked, returned>>

\* Bounds of the model.
MaxScans == 2      \* scans requested in one run
MaxTyped == 1      \* tabs the user typed into

(***************************************************************************)
(* The tabs, in the order __init__ creates them (dict insertion order).    *)
(***************************************************************************)
Tabs == <<"Summary", "All Components", "CPU", "Memory", "GPU",
          "Storage", "Motherboard", "Network", "OS">>

TabNames == {Tabs[k] : k \in 1..Len(Tabs)}

\* tab_name.upper() of export_to_text
Upper(name) ==
    CASE name = "Summary"        -> "SUMMARY"
      [] name = "All Components" -> "ALL COMPONENTS"
      [] name = "CPU"            -> "CPU"
      [] name = "Memory"         -> "MEMORY"
      [] name = "GPU"            -> "GPU"
      [] name = "Storage"        -> "STORAGE"
      [] name = "Motherboard"    -> "MOTHERBOARD"
      [] name = "Network"        -> "NETWORK"
      [] name = "OS"             -> "OS"

(***************************************************************************)
(* Widget contents.  A text block is named by the scan that computed it    *)
(* and the call of scan_system that returned it; every block starts with   *)
(* its heading line, so no block is the empty text.                        *)
(***************************************************************************)
Empty == [scan |-> 0, of |-> ""]
Typed == [scan |-> 0, of |-> "typed"]
Block(i, call) == [scan |-> i, of |-> call]

\* The status texts.
Ready        == "Ready to scan"
Scanning     == "Scanning system..."
Complete     == "Scan complete!"
ErrorText    == "Error during scan: "
Exported     == "Exported to "
ExportFailed == "Export failed: "

(***************************************************************************)
(* scan_system: the calls of its try block, in order.                      *)
(***************************************************************************)
Calls == <<"get_os_info", "get_cpu_info", "get_memory_info", "get_gpu_info",
           "get_disk_info", "get_motherboard_info", "get_network_info",
           "get_components_summary", "summary">>

\* The category functions among them.
CategoryCalls == {Calls[k] : k \in 1..7}

\* The data sources each call reads.
Sources(call) ==
    CASE call = "get_os_info" ->
            {"platform.uname", "psutil.boot_time"}
      [] call = "get_cpu_info" ->
            {"platform.system", "winreg", "wmic", "platform.processor",
             "platform.machine", "psutil.cpu_count", "psutil.cpu_freq",
             "psutil.cpu_percent"}
      [] call = "get_memory_info" ->
            {"psutil.virtual_memory", "platform.system", "powershell", "wmic",
             "psutil.swap_memory"}
      [] call = "get_gpu_info" ->
            {"nvidia-smi", "platform.system", "wmic"}
      [] call = "get_disk_info" ->
            {"psutil.disk_partitions", "psutil.disk_usage",
             "psutil.disk_io_counters", "platform.system", "wmic"}
      [] call = "get_motherboard_info" ->
            {"platform.system", "powershell", "dmi",
             "psutil.sensors_temperatures", "psutil.sensors_battery"}
      [] call = "get_network_info" ->
            {"psutil.net_if_addrs", "addr.family", "psutil.net_io_counters"}
      [] call = "get_components_summary" ->
            {"platform.system", "winreg", "nvidia-smi", "powershell",
             "platform.processor", "psutil.cpu_count", "psutil.cpu_freq", "psutil.virtual_memory",
             "psutil.disk_partitions", "psutil.disk_usage", "platform.uname"}
      [] call = "summary" ->
            {"platform.system", "platform.release", "platform.processor",
             "psutil.cpu_count", "psutil.virtual_memory", "psutil.disk_partitions"}

\* The sources a call reads inside a try block of its own.
Guarded(call) ==
    CASE call = "get_os_info"            -> {}
      [] call = "get_cpu_info"           -> {"winreg", "wmic"}
      [] call = "get_memory_info"        -> {"powershell", "wmic"}
      [] call = "get_gpu_info"           -> {"nvidia-smi", "wmic"}
      [] call = "get_disk_info"          -> {"psutil.disk_usage", "wmic"}
      [] call = "get_motherboard_info"   -> {"powershell", "dmi",
                                             "psutil.sensors_temperatures",
                                             "psutil.sensors_battery"}
      [] call = "get_network_info"       -> {"addr.family"}
      [] call = "get_components_summary" -> {"winreg", "nvidia-smi", "powershell",
                                             "psutil.disk_usage"}
      [] call = "summary"                -> {}

\* A call raises when a source it reads outside any try block fails.
Raises(call, failed) == failed \in Sources(call) \ Guarded(call)

\* Updates, with the name of the last tab misspelt.
Updates_TabMisspelt ==
           << [tab |-> "Summary",        of |-> "summary"],
              [tab |-> "All Components", of |-> "get_components_summary"],
              [tab |-> "CPU",            of |-> "get_cpu_info"],
              [tab |-> "Memory",         of |-> "get_memory_info"],
              [tab |-> "GPU",            of |-> "get_gpu_info"],
              [tab |-> "Storage",        of |-> "get_disk_info"],
              [tab |-> "Motherboard",    of |-> "get_motherboard_info"],
              [tab |-> "Network",        of |-> "get_network_info"],
              [tab |-> "Os",             of |-> "get_os_info"] >>

\* Updates, with the CPU and Memory calls in the other order.
Updates_MemoryBeforeCPU ==
           << [tab |-> "Summary",        of |-> "summary"],
              [tab |-> "All Components", of |-> "get_components_summary"],
              [tab |-> "Memory",         of |-> "get_memory_info"],
              [tab |-> "CPU",            of |-> "get_cpu_info"],
              [tab |-> "GPU",            of |-> "get_gpu_info"],
              [tab |-> "Storage",        of |-> "get_disk_info"],
              [tab |-> "Motherboard",    of |-> "get_motherboard_info"],
              [tab |-> "Network",        of |-> "get_network_info"],
              [tab |-> "OS",             of |-> "get_os_info"] >>

\* The root.after(0, self.update_tab, ...) calls, in order.
Updates == << [tab |-> "Summary",        of |-> "summary"],
              [tab |-> "All Components", of |-> "get_components_summary"],
              [tab |-> "CPU",            of |-> "get_cpu_info"],
              [tab |-> "Memory",         of |-> "get_memory_info"],
              [tab |-> "GPU",            of |-> "get_gpu_info"],
              [tab |-> "Storage",        of |-> "get_disk_info"],
              [tab |-> "Motherboard",    of |-> "get_motherboard_info"],
              [tab |-> "Network",        of |-> "get_network_info"],
              [tab |-> "OS",             of |-> "get_os_info"] >>

\* A thread's place in scan_system.
At(part, k) == [at |-> part, k |-> k]
Finished    == At("done", 0)

\* The last root.after of scan_system has been taken by the main loop; the
\* thread has not left scan_system yet.
Returning   == At("return", 0)

\* A callback registered with root.after by thread i.
Task(fn, tab, content, i) == [fn |-> fn, tab |-> tab, content |-> content, by |-> i]

\* No function is called on its own while the main loop runs.
NoCall   == [fn |-> "", args |-> <<>>]
NoResult == [done |-> FALSE, value |-> <<>>]

(***************************************************************************)
(* __init__ and create_tab: nine empty text widgets in their default       *)
(* (normal) state, both buttons enabled, "Ready to scan".                  *)
(***************************************************************************)
Constructed ==
    /\ text = [name \in TabNames |-> Empty]
    /\ wstate = [name \in TabNames |-> "normal"]
    /\ scan_button = "normal"
    /\ status_label = Ready
    /\ threads = <<>>
    /\ after_queue = <<>>
    /\ file = <<>>
    /\ event = "mainloop"

Init ==
    /\ Constructed
    /\ invoked = NoCall
    /\ returned = NoResult

\* A key pressed in a tab's text widget: a Text widget takes it in the normal
\* state.  A character makes the text a typed one; BackSpace shortens a typed
\* text, to the empty text when it removes the last character.
KeyPress(name) ==
    /\ wstate[name] = "normal"
    /\ text[name] \in {Empty, Typed}
    /\ \E key \in {"character", "BackSpace"} :
          IF key = "character"
          THEN /\ text[name] = Empty =>
                     Cardinality({n \in TabNames : text[n] = Typed}) < MaxTyped
               /\ text' = [text EXCEPT ![name] = Typed]
          ELSE \E left \in {Empty, Typed} :
                  /\ text[name] = Empty => left = Empty
                  /\ text' = [text EXCEPT ![name] = left]
    /\ event' = "KeyPress"
    /\ UNCHANGED <<wstate, scan_button, status_label, threads, after_queue, file>>
    /\ UNCHANGED <<invoked, returned>>

(***************************************************************************)
(* start_scan                                                              *)
(***************************************************************************)
\* start_scan, leaving the scan button enabled.
start_scan_ButtonLeftEnabled ==
    /\ Len(threads) < MaxScans
    /\ scan_button' = scan_button
    /\ status_label' = Scanning
    /\ text' = [name \in TabNames |-> Empty]
    /\ wstate' = [name \in TabNames |-> "disabled"]
    /\ threads' = Append(threads, At("call", 1))
    /\ event' = "start_scan"
    /\ UNCHANGED <<after_queue, file>>
    /\ UNCHANGED <<invoked, returned>>

\* start_scan, without the loop that clears the tabs.
start_scan_TabsNotCleared ==
    /\ Len(threads) < MaxScans
    /\ scan_button' = "disabled"
    /\ status_label' = Scanning
    /\ threads' = Append(threads, At("call", 1))
    /\ event' = "start_scan"
    /\ UNCHANGED <<text, wstate, after_queue, file>>
    /\ UNCHANGED <<invoked, returned>>

\* start_scan, leaving the status line as it was.
start_scan_StatusNotSet ==
    /\ Len(threads) < MaxScans
    /\ scan_button' = "disabled"
    /\ text' = [name \in TabNames |-> Empty]
    /\ wstate' = [name \in TabNames |-> "disabled"]
    /\ threads' = Append(threads, At("call", 1))
    /\ event' = "start_scan"
    /\ UNCHANGED <<status_label, after_queue, file>>
    /\ UNCHANGED <<invoked, returned>>

start_scan ==
    /\ Len(threads) < MaxScans
    /\ scan_button' = "disabled"
    /\ status_label' = Scanning
    /\ text' = [name \in TabNames |-> Empty]
    /\ wstate' = [name \in TabNames |-> "disabled"]
    /\ threads' = Append(threads, At("call", 1))
    /\ event' = "start_scan"
    /\ UNCHANGED <<after_queue, file>>
    /\ UNCHANGED <<invoked, returned>>

\* A click on the "Scan System" button: a ttk.Button runs its command unless disabled.
ScanRequest ==
    IF scan_button = "normal"
    THEN start_scan
    ELSE /\ event' = "click ignored"
         /\ UNCHANGED <<text, wstate, scan_button, status_label, threads,
                        after_queue, file, invoked, returned>>

(***************************************************************************)
(* scan_system, run by thread i                                            *)
(***************************************************************************)
\* One call of the try block returns or raises.
Collect(i) ==
    /\ threads[i].at = "call"
    /\ \E failed \in Sources(Calls[threads[i].k]) \cup {"none"} :
          threads' = [threads EXCEPT ![i] =
              IF Raises(Calls[threads[i].k], failed) THEN At("except", 1)
              ELSE IF threads[i].k < Len(Calls) THEN At("call", threads[i].k + 1)
              ELSE At("after", 1)]
    /\ UNCHANGED <<text, wstate, scan_button, status_label, after_queue, file, event>>
    /\ UNCHANGED <<invoked, returned>>

\* Handoff, with scan_complete registered before the last update_tab.
Handoff_CompleteBeforeLast(i) ==
    /\ threads[i].at = "after"
    /\ LET k == threads[i].k
           n == Len(Updates) IN
          /\ after_queue' = Append(after_queue,
                 IF k = n THEN Task("scan_complete", "", Empty, i)
                 ELSE IF k = n + 1
                      THEN Task("update_tab", Updates[n].tab, Block(i, Updates[n].of), i)
                      ELSE Task("update_tab", Updates[k].tab, Block(i, Updates[k].of), i))
          /\ threads' = [threads EXCEPT ![i] =
                 IF k <= n THEN At("after", k + 1) ELSE Returning]
    /\ UNCHANGED <<text, wstate, scan_button, status_label, file, event>>
    /\ UNCHANGED <<invoked, returned>>

\* The root.after calls that end the try block.
Handoff(i) ==
    /\ threads[i].at = "after"
    /\ LET k == threads[i].k IN
          IF k <= Len(Updates)
          THEN /\ after_queue' = Append(after_queue,
                      Task("update_tab", Updates[k].tab, Block(i, Updates[k].of), i))
               /\ threads' = [threads EXCEPT ![i] = At("after", k + 1)]
          ELSE /\ after_queue' = Append(after_queue, Task("scan_complete", "", Empty, i))
               /\ threads' = [threads EXCEPT ![i] = Returning]
    /\ UNCHANGED <<text, wstate, scan_button, status_label, file, event>>
    /\ UNCHANGED <<invoked, returned>>

\* The except block, configuring the widgets from the thread itself.
ExceptHandler_Direct(i) ==
    /\ threads[i].at = "except"
    /\ IF threads[i].k = 1
       THEN /\ status_label' = ErrorText
            /\ threads' = [threads EXCEPT ![i] = At("except", 2)]
            /\ UNCHANGED scan_button
       ELSE /\ scan_button' = "normal"
            /\ threads' = [threads EXCEPT ![i] = Returning]
            /\ UNCHANGED status_label
    /\ UNCHANGED <<text, wstate, after_queue, file, event>>
    /\ UNCHANGED <<invoked, returned>>

\* The except block, re-enabling the button before it reports the error.
ExceptHandler_ButtonFirst(i) ==
    /\ threads[i].at = "except"
    /\ IF threads[i].k = 1
       THEN /\ after_queue' = Append(after_queue,
                   Task("scan_button.config", "", Empty, i))
            /\ threads' = [threads EXCEPT ![i] = At("except", 2)]
       ELSE /\ after_queue' = Append(after_queue,
                   Task("status_label.config", "", Empty, i))
            /\ threads' = [threads EXCEPT ![i] = Returning]
    /\ UNCHANGED <<text, wstate, scan_button, status_label, file, event>>
    /\ UNCHANGED <<invoked, returned>>

\* The except block, reporting the error without re-enabling the button.
ExceptHandler_ButtonForgotten(i) ==
    /\ threads[i].at = "except"
    /\ after_queue' = Append(after_queue, Task("status_label.config", "", Empty, i))
    /\ threads' = [threads EXCEPT ![i] = Returning]
    /\ UNCHANGED <<text, wstate, scan_button, status_label, file, event>>
    /\ UNCHANGED <<invoked, returned>>

\* The except block.
ExceptHandler(i) ==
    /\ threads[i].at = "except"
    /\ IF threads[i].k = 1
       THEN /\ after_queue' = Append(after_queue,
                   Task("status_label.config", "", Empty, i))
            /\ threads' = [threads EXCEPT ![i] = At("except", 2)]
       ELSE /\ after_queue' = Append(after_queue,
                   Task("scan_button.config", "", Empty, i))
            /\ threads' = [threads EXCEPT ![i] = Returning]
    /\ UNCHANGED <<text, wstate, scan_button, status_label, file, event>>
    /\ UNCHANGED <<invoked, returned>>

\* The thread leaves scan_system, its last root.after having returned.
Leave(i) ==
    /\ threads[i] = Returning
    /\ threads' = [threads EXCEPT ![i] = Finished]
    /\ UNCHANGED <<text, wstate, scan_button, status_label, after_queue, file, event>>
    /\ UNCHANGED <<invoked, returned>>

scan_system(i) == Collect(i) \/ Handoff(i) \/ ExceptHandler(i) \/ Leave(i)

(***************************************************************************)
(* The callbacks the main loop runs                                        *)
(***************************************************************************)
update_tab(tab_name, content) ==
    /\ IF tab_name \in TabNames
       THEN /\ text' = [text EXCEPT ![tab_name] = content]
            /\ wstate' = [wstate EXCEPT ![tab_name] = "disabled"]
       ELSE UNCHANGED <<text, wstate>>
    /\ UNCHANGED <<scan_button, status_label>>

scan_complete ==
    /\ status_label' = Complete
    /\ scan_button' = "normal"
    /\ UNCHANGED <<text, wstate>>

\* The main loop runs the oldest callback of the queue.
RunCallback ==
    /\ after_queue # <<>>
    /\ LET t == Head(after_queue) IN
          /\ CASE t.fn = "update_tab"          -> update_tab(t.tab, t.content)
               [] t.fn = "scan_complete"       -> scan_complete
               [] t.fn = "status_label.config" ->
                    /\ status_label' = ErrorText
                    /\ UNCHANGED <<text, wstate, scan_button>>
               [] t.fn = "scan_button.config"  ->
                    /\ scan_button' = "normal"
                    /\ UNCHANGED <<text, wstate, status_label>>
          /\ event' = t.fn
    /\ after_queue' = Tail(after_queue)
    /\ UNCHANGED <<threads, file>>
    /\ UNCHANGED <<invoked, returned>>

(***************************************************************************)
(* export_to_text: the export succeeds, or it fails with n sections whole  *)
(* in the file (what it leaves of the section after them is not kept here; *)
(* Return_export_to_text has the file character by character).             *)
(***************************************************************************)
\* The positions of the tabs whose widget is not empty.
NonEmptyTabs == SelectSeq([k \in 1..Len(Tabs) |-> k], LAMBDA k : text[Tabs[k]] # Empty)

Section(name) == [label |-> Upper(name), body |-> text[name]]

\* export_to_text, leaving out the sections of the empty tabs.
export_to_text_SkipsEmptyTabs ==
    /\ \E ok \in BOOLEAN, n \in 0..Len(Tabs) :
          /\ ok => n = Len(Tabs)
          /\ file' = [j \in 1..Len(SelectSeq(NonEmptyTabs, LAMBDA k : k <= n)) |->
                         Section(Tabs[NonEmptyTabs[j]])]
          /\ status_label' = IF ok THEN Exported ELSE ExportFailed
    /\ event' = "export_to_text"
    /\ UNCHANGED <<text, wstate, scan_button, threads, after_queue>>
    /\ UNCHANGED <<invoked, returned>>

\* export_to_text, with the widgets emptied when the export fails.
export_to_text_FailureClearsTabs ==
    /\ \E ok \in BOOLEAN, n \in 0..Len(Tabs) :
          /\ ok => n = Len(Tabs)
          /\ file' = [k \in 1..n |-> Section(Tabs[k])]
          /\ status_label' = IF ok THEN Exported ELSE ExportFailed
          /\ text' = IF ok THEN text ELSE [name \in TabNames |-> Empty]
    /\ event' = "export_to_text"
    /\ UNCHANGED <<wstate, scan_button, threads, after_queue>>
    /\ UNCHANGED <<invoked, returned>>

export_to_text_ReenablesButton ==
    /\ \E ok \in BOOLEAN, n \in 0..Len(Tabs) :
          /\ ok => n = Len(Tabs)
          /\ file' = [k \in 1..n |-> Section(Tabs[k])]
          /\ status_label' = IF ok THEN Exported ELSE ExportFailed
    /\ scan_button' = "normal"
    /\ event' = "export_to_text"
    /\ UNCHANGED <<text, wstate, threads, after_queue>>
    /\ UNCHANGED <<invoked, returned>>

export_to_text ==
    /\ \E ok \in BOOLEAN, n \in 0..Len(Tabs) :
          /\ ok => n = Len(Tabs)
          /\ file' = [k \in 1..n |-> Section(Tabs[k])]
          /\ status_label' = IF ok THEN Exported ELSE ExportFailed
    /\ event' = "export_to_text"
    /\ UNCHANGED <<text, wstate, scan_button, threads, after_queue>>
    /\ UNCHANGED <<invoked, returned>>

Next ==
    \/ \E name \in TabNames : KeyPress(name)
    \/ ScanRequest
    \/ \E i \in DOMAIN threads : scan_system(i)
    \/ RunCallback
    \/ export_to_text

Spec == Init /\ [][Next]_vars

(***************************************************************************)
(* Scan sessions                                                           *)
(***************************************************************************)
\* The threads still inside scan_system.
Active == {i \in DOMAIN threads : threads[i] # Finished}

\* The threads that have a call or a root.after of scan_system still to make.
Working == {i \in DOMAIN threads : threads[i] \notin {Returning, Finished}}

\* A session is running while its thread works or a callback of it is pending.
Running == Working # {} \/ after_queue # <<>>

AllEmpty == \A name \in TabNames : text[name] = Empty

\* The tabs (by position) that hold a block computed by a scan.
Populated == {k \in 1..Len(Tabs) : text[Tabs[k]].scan > 0}

\* The step runs the oldest callback, registered as fn.
Runs(fn) ==
    /\ after_queue # <<>>
    /\ Head(after_queue).fn = fn
    /\ after_queue' = Tail(after_queue)
    /\ event' = fn

\* The step is one of thread i inside scan_system.
ThreadStep(i) == threads'[i] # threads[i]

\* The step starts a thread.
Launch == Len(threads') > Len(threads)

\* C1 as stated: at most one thread is inside scan_system at any time.
C1_OneThreadInScanSystem ==
    Cardinality(Active) <= 1

\* C1, amended: at most one thread has a call or a root.after of scan_system
\* still to make; a thread is started only while the scan button is enabled,
\* by a step that leaves it disabled; and the button is re-enabled only by the
\* scan_complete or scan_button.config callback of the latest thread, which
\* has then made its last root.after call (it may not have left scan_system).
C1_OneSession ==
    /\ [](Cardinality(Working) <= 1)
    /\ [][Launch => scan_button = "normal" /\ scan_button' = "disabled"]_vars
    /\ [][(scan_button = "disabled" /\ scan_button' = "normal") =>
            /\ Runs("scan_complete") \/ Runs("scan_button.config")
            /\ Head(after_queue).by = Len(threads)
            /\ Working = {}]_vars

\* A second scan is at its calls while the thread of the first has not left
\* scan_system, and a click during the second scan was ignored.
C1_Witness ==
    /\ Len(threads) = 2
    /\ threads[1] = Returning
    /\ threads[2].at = "call"
    /\ event = "click ignored"

\* C2 as stated: in every state the main loop can observe, no tab holds scan
\* results while another tab is still empty.
C2_AllOrNothing ==
    ~(\E a, b \in TabNames : text[a].scan > 0 /\ text[b] = Empty)

\* C2, amended: the tabs holding scan results are always the first m tabs in
\* declaration order, for some m, and hold the blocks of the latest scan
\* started; from the first scan request on every other tab is empty; and
\* whenever no session is running, m is 0 or 9 (nothing, or all the results of
\* the scan completed last).
C2_PrefixOfLatestScan ==
    /\ \E m \in 0..Len(Tabs) : Populated = 1..m
    /\ \A k \in Populated : text[Tabs[k]] = Block(Len(threads), Updates[k].of)
    /\ threads # <<>> =>
          \A k \in (1..Len(Tabs)) \ Populated : text[Tabs[k]] = Empty
    /\ ~Running => Populated = {} \/ Populated = 1..Len(Tabs)

\* An export runs between two update_tab callbacks of the second scan.
C2_Witness ==
    /\ Len(threads) = 2
    /\ Running
    /\ Populated = 1..3
    /\ event = "export_to_text"
    /\ Len(file) = Len(Tabs)

\* C3: a step of a thread inside scan_system changes no tab's content or
\* state, nor the status line, nor the scan button; all it does to the main
\* loop is to append one callback to its queue (or nothing), on the success
\* path and in the except block alike.
C3_ThreadOnlyEnqueues ==
    [][\A i \in DOMAIN threads : ThreadStep(i) =>
          /\ UNCHANGED <<text, wstate, status_label, scan_button>>
          /\ \/ after_queue' = after_queue
             \/ /\ Len(after_queue') = Len(after_queue) + 1
                /\ SubSeq(after_queue', 1, Len(after_queue)) = after_queue
                /\ after_queue'[Len(after_queue')].by = i]_vars

\* The except block has registered its first callback, which has not run yet.
C3_Witness ==
    \E i \in DOMAIN threads :
        /\ threads[i] = At("except", 2)
        /\ after_queue = <<Task("status_label.config", "", Empty, i)>>
        /\ status_label = Scanning
        /\ scan_button = "disabled"

\* C4: a scan request made while a session is running starts no thread and
\* leaves every tab, the status line, the scan button and the callback queue
\* as they were.
C4_RequestWhileRunningIsNoOp ==
    [][(Running /\ ScanRequest) =>
          UNCHANGED <<threads, text, wstate, status_label, scan_button,
                      after_queue, file>>]_vars

\* A click was ignored while update_tab callbacks were pending.
C4_Witness ==
    /\ event = "click ignored"
    /\ Active = {}
    /\ after_queue # <<>>
    /\ Populated # {}

\* C5: whenever the status line shows the completion message, every one of
\* the nine tabs holds a block of scan results, none is empty.
C5_CompleteMeansAllPopulated ==
    status_label = Complete =>
        \A name \in TabNames : text[name] # Empty /\ text[name].scan > 0

\* scan_complete has just run.
C5_Witness ==
    /\ event = "scan_complete"
    /\ status_label = Complete
    /\ Populated = 1..Len(Tabs)

\* C6 as stated: no call of a category function sends scan_system into its
\* except block, whichever data source fails inside it.
C6_NoCategoryAborts ==
    [][\A i \in DOMAIN threads :
          (threads[i].at = "call" /\ Calls[threads[i].k] \in CategoryCalls)
              => threads'[i].at # "except"]_vars

\* C7 as stated: when the failure path re-enables the scan button, the status
\* line shows the error text.
C7_FailureShowsError ==
    [][Runs("scan_button.config") =>
          scan_button' = "normal" /\ status_label' = ErrorText]_vars

\* C7, amended: the first failure callback puts the error text in the status
\* line; when the second re-enables the scan button, the status line shows
\* the error text, or the message of an export handled between the two.
C7_FailureShowsErrorUnlessExport ==
    /\ [][Runs("status_label.config") =>
             status_label' = ErrorText /\ scan_button' = "disabled"]_vars
    /\ [][Runs("scan_button.config") =>
             /\ scan_button' = "normal"
             /\ status_label' \in {ErrorText, Exported, ExportFailed}
             /\ ~Running']_vars

\* The failure path has re-enabled the button with the error text showing.
C7_Witness ==
    /\ event = "scan_button.config"
    /\ scan_button = "normal"
    /\ status_label = ErrorText
    /\ AllEmpty

\* C8: the step that starts a thread leaves the scan button disabled, the
\* status line at the scanning message and all nine tabs empty, with the new
\* thread before its first call; and while a thread is at one of the calls
\* of scan_system every tab is empty.
C8_ClearedBeforeWork ==
    /\ [][Launch =>
             /\ scan_button' = "disabled"
             /\ status_label' = Scanning
             /\ AllEmpty'
             /\ threads'[Len(threads')] = At("call", 1)]_vars
    /\ [](\A i \in DOMAIN threads : threads[i].at = "call" => AllEmpty)

\* The thread of a second scan is at its calls, after a first scan completed.
C8_Witness ==
    /\ Len(threads) = 2
    /\ threads[1] = Finished
    /\ threads[2].at = "call"
    /\ threads[2].k > 1

\* C9 as stated: while a session is running the scan button is disabled and
\* the status line shows the scanning message.
C9_StatusScanningWhileRunning ==
    Running => scan_button = "disabled" /\ status_label = Scanning

\* C9, amended: while a session is running the scan button is disabled, and
\* the status line shows the scanning message, or the message of an export
\* handled during the scan, or, on the failure path between its two
\* callbacks, the error text.
C9_StatusWhileRunning ==
    Running =>
        /\ scan_button = "disabled"
        /\ \/ status_label = Scanning
           \/ status_label \in {Exported, ExportFailed}
           \/ /\ status_label = ErrorText
              /\ threads[Len(threads)] \in {At("except", 2), Returning, Finished}
              /\ \A j \in DOMAIN after_queue :
                     after_queue[j].fn = "scan_button.config"

\* An export was handled while the thread was at its calls.
C9_Witness ==
    /\ \E i \in DOMAIN threads : threads[i].at = "call"
    /\ event = "export_to_text"
    /\ status_label = ExportFailed
    /\ scan_button = "disabled"

\* C10 as stated: between events, every tab's text widget is in the disabled
\* state, from the initial state on.
C10_TabsReadOnly ==
    \A name \in TabNames : wstate[name] = "disabled"

(***************************************************************************)
(* Export                                                                  *)
(***************************************************************************)
\* The first scan, if requested at all, has not come to its end.
NoScanEnded == threads = <<>> \/ (Len(threads) = 1 /\ Running)

\* C11 as stated: an export that succeeds writes nine sections in declaration
\* order, each with the tab's label and the tab's current text, and before any
\* scan has completed no section body holds scan results (the claim says more:
\* every body is empty).
C11_NineSectionsEmptyBeforeScan ==
    [][(export_to_text /\ status_label' = Exported) =>
          /\ Len(file') = Len(Tabs)
          /\ \A k \in 1..Len(Tabs) :
                file'[k] = [label |-> Upper(Tabs[k]), body |-> text[Tabs[k]]]
          /\ NoScanEnded => \A k \in 1..Len(Tabs) : file'[k].body.scan = 0]_vars

\* C11, amended: an export that succeeds, in any scan state, writes nine
\* sections in declaration order, each headed by the tab's upper-cased label
\* and followed by the tab's current text.  Before the first scan request a
\* body is empty or holds what the user typed into that tab; from then on a
\* body is empty or holds the block of the latest scan for that tab.
C11_NineSectionsCurrentText ==
    [][(export_to_text /\ status_label' = Exported) =>
          /\ Len(file') = Len(Tabs)
          /\ \A k \in 1..Len(Tabs) :
                /\ file'[k] = [label |-> Upper(Tabs[k]), body |-> text[Tabs[k]]]
                /\ threads = <<>> => file'[k].body \in {Empty, Typed}
                /\ threads # <<>> =>
                      file'[k].body \in {Empty, Block(Len(threads), Updates[k].of)}]_vars

\* An export during the first scan wrote four populated and five empty sections.
C11_Witness ==
    /\ event = "export_to_text"
    /\ status_label = Exported
    /\ Len(threads) = 1
    /\ Running
    /\ Populated = 1..4
    /\ Len(file) = Len(Tabs)
    /\ file[4] = [label |-> "MEMORY", body |-> Block(1, "get_memory_info")]
    /\ file[5] = [label |-> "GPU", body |-> Empty]

\* C13: an export that fails shows the failure text in the status line and
\* leaves the content and the state of every tab as they were, whatever part
\* of the file it wrote.
C13_FailedExportKeepsSlots ==
    [][(export_to_text /\ status_label' # Exported) =>
          /\ status_label' = ExportFailed
          /\ text' = text
          /\ wstate' = wstate]_vars

\* An export failed after four sections, with all nine tabs populated.
C13_Witness ==
    /\ event = "export_to_text"
    /\ status_label = ExportFailed
    /\ Len(file) = 4
    /\ Populated = 1..Len(Tabs)
    /\ ~Running

\* C21: an export, successful or failed and whatever the scan is doing,
\* leaves the text and the state of all nine tabs, the state of the scan
\* button, the number of active threads and the queue of pending callbacks as
\* they were; of what the window shows it changes the status line only, to
\* the export's success or failure text.
C21_ExportFrame ==
    [][export_to_text =>
          /\ text' = text
          /\ wstate' = wstate
          /\ scan_button' = scan_button
          /\ Cardinality(Active)' = Cardinality(Active)
          /\ threads' = threads
          /\ after_queue' = after_queue
          /\ status_label' \in {Exported, ExportFailed}]_vars

\* An export succeeded in the middle of a scan: the thread still works, some
\* of its callbacks are pending, some tabs are populated, the button is
\* disabled.
C21_Witness ==
    /\ event = "export_to_text"
    /\ status_label = Exported
    /\ Active # {}
    /\ after_queue # <<>>
    /\ Populated # {}
    /\ scan_button = "disabled"

(***************************************************************************)
(* Order and termination of a scan                                         *)
(***************************************************************************)
\* The update_tab callbacks still in the queue.
PendingUpdates == SelectSeq(after_queue, LAMBDA t : t.fn = "update_tab")

\* C18: callbacks are registered only by a thread that has passed all nine
\* calls of its try block (or is in its except block); the update_tab
\* callbacks of a scan run in declaration order of the tabs; scan_complete
\* runs only when all nine tabs are populated; and the scan button is never
\* enabled while an update_tab callback is pending.
C18_HandoffOrder ==
    /\ [](\A j \in DOMAIN after_queue :
             /\ threads[after_queue[j].by].at # "call"
             /\ after_queue[j].fn \in {"update_tab", "scan_complete"} =>
                   threads[after_queue[j].by].at \in {"after", "return", "done"})
    /\ [](\A j \in DOMAIN PendingUpdates :
             /\ Cardinality(Populated) + j <= Len(Tabs)
             /\ PendingUpdates[j].tab = Tabs[Cardinality(Populated) + j])
    /\ [][Runs("scan_complete") =>
             /\ Populated = 1..Len(Tabs)
             /\ PendingUpdates = <<>>
             /\ scan_button = "disabled"]_vars
    /\ [](scan_button = "normal" => PendingUpdates = <<>>)

\* Four updates of the second scan have run and five are pending.
C18_Witness ==
    /\ Len(threads) = 2
    /\ Populated = 1..4
    /\ Len(PendingUpdates) = 5
    /\ Len(after_queue) = 5
    /\ scan_button = "disabled"

\* C19 as stated, under fair scheduling of the threads and of the main
\* loop's callbacks: whenever the scan button is disabled it is enabled again
\* later, by scan_complete with the completion message showing or by the
\* failure path with the error text showing.
C19_ScanEndsCompleteOrError ==
    /\ (scan_button = "disabled") ~> (scan_button = "normal" /\ ~Running)
    /\ [][(scan_button = "disabled" /\ scan_button' = "normal") =>
             \/ Runs("scan_complete") /\ status_label' = Complete
             \/ Runs("scan_button.config") /\ status_label' = ErrorText]_vars

\* C19, amended: under the same fairness, whenever the scan button is
\* disabled it is enabled again later, by scan_complete with the completion
\* message showing, or by the failure path with the status line showing the
\* error text or the message of an export handled between the two failure
\* callbacks.
C19_ScanTerminates ==
    /\ (scan_button = "disabled") ~> (scan_button = "normal" /\ ~Running)
    /\ [][(scan_button = "disabled" /\ scan_button' = "normal") =>
             \/ Runs("scan_complete") /\ status_label' = Complete
             \/ /\ Runs("scan_button.config")
                /\ status_label' \in {ErrorText, Exported, ExportFailed}]_vars

\* A second scan has ended on the failure path after a first that completed.
C19_Witness ==
    /\ Len(threads) = 2
    /\ ~Running
    /\ scan_button = "normal"
    /\ event = "scan_button.config"
    /\ status_label = ErrorText

\* C20: at any moment the tabs holding scan results hold results of one and
\* the same scan, the latest one started, and no tab holds typed text beside
\* them; a scan is started only when no callback of an earlier scan is
\* pending, and every pending callback is one of the latest scan.
C20_OneScanInSlots ==
    /\ [](\A a, b \in TabNames :
             (text[a].scan > 0 /\ text[b] # Empty) => text[b].scan = text[a].scan)
    /\ [](\A a \in TabNames : text[a].scan > 0 => text[a].scan = Len(threads))
    /\ [](\A j \in DOMAIN after_queue : after_queue[j].by = Len(threads))
    /\ [][Launch => after_queue = <<>> /\ Working = {}]_vars

\* A second scan populates the tabs after a first one had populated them all.
C20_Witness ==
    /\ Len(threads) = 2
    /\ Populated = 1..2
    /\ text["Summary"] = Block(2, "summary")
    /\ text["CPU"] = Empty
    /\ after_queue # <<>>
    /\ Head(after_queue).content = Block(2, "get_cpu_info")

\* The threads and the main loop's callbacks are scheduled fairly.
FairSpec ==
    /\ Spec
    /\ WF_vars(\E i \in DOMAIN threads : scan_system(i))
    /\ WF_vars(RunCallback)

(***************************************************************************)
(* The functions of the tool, each called on its own on inputs drawn from  *)
(* bounded sets.                                                           *)
(***************************************************************************)
Call(fn, args) == [fn |-> fn, args |-> args]
Returned(value) == [done |-> TRUE, value |-> value]

\* The step in which the function called returns value.
Return(fn, value) ==
    /\ invoked.fn = fn
    /\ ~returned.done
    /\ returned' = Returned(value)
    /\ UNCHANGED <<text, wstate, scan_button, status_label, threads, after_queue,
                   file, event, invoked>>

(***************************************************************************)
(* get_size.  A number is written in base 1024, least significant digit    *)
(* first; point is the number of divisions by 1024 made so far, so the     *)
(* value is the sum of digits[j] * 1024^(j - 1 - point).  The byte count   *)
(* is an integer; from the first division on bytes_val is a float, of 53   *)
(* significant bits.                                                       *)
(***************************************************************************)
factor == 1024

\* The bits of a digit (factor = 2^10) and of a float's significand.
DigitBits == 10
Mantissa == 53

Units == <<"", "K", "M", "G", "T", "P">>

Digit(v, j) == IF j \in DOMAIN v.digits THEN v.digits[j] ELSE 0

\* The position of the highest non-zero digit, 0 for the number 0:
\* 1024^(k-1) <= b < 1024^k for a byte count b > 0.
TopDigit(digits) ==
    IF \A j \in DOMAIN digits : digits[j] = 0 THEN 0
    ELSE CHOOSE j \in DOMAIN digits :
             digits[j] # 0 /\ \A i \in DOMAIN digits : i > j => digits[i] = 0

\* The number of bits of a digit d > 0.
BitLength(d) == CHOOSE L \in 1..DigitBits : 2^(L - 1) <= d /\ d < 2^L

\* digits + x * 1024^(j-1), for 0 <= x <= factor.
RECURSIVE AddAt(_, _, _)
AddAt(digits, j, x) ==
    IF j > Len(digits) THEN Append(digits, x)
    ELSE IF digits[j] + x < factor THEN [digits EXCEPT ![j] = digits[j] + x]
    ELSE AddAt([digits EXCEPT ![j] = digits[j] + x - factor], j + 1, 1)

\* The float nearest to the number (ties to even): its 53 leading bits,
\* rounded.  c is the digit the cut falls in, of which r bits are kept.
ToFloat(digits) ==
    LET m    == TopDigit(digits)
        keep == Mantissa - BitLength(digits[m])
        c    == m - (keep \div DigitBits) - 1
        r    == keep % DigitBits
        unit == 2^(DigitBits - r)
    IN  IF m = 0 \/ c < 1 THEN digits
        ELSE LET rem   == digits[c] % unit
                 lower == \E j \in 1..(c - 1) : digits[j] # 0
                 odd   == IF r = 0 THEN digits[c + 1] % 2 = 1
                          ELSE (digits[c] \div unit) % 2 = 1
                 up    == \/ 2 * rem > unit
                          \/ 2 * rem = unit /\ (lower \/ odd)
                 cut   == [j \in DOMAIN digits |->
                              IF j < c THEN 0
                              ELSE IF j = c THEN digits[c] - rem ELSE digits[j]]
             IN  IF up THEN AddAt(cut, c, unit) ELSE cut

\* bytes_val < factor
LessThanFactor(v) == \A j \in DOMAIN v.digits : j > v.point + 1 => v.digits[j] = 0

\* bytes_val /= factor: the quotient, as a float
DivideByFactor(v) == [digits |-> ToFloat(v.digits), point |-> v.point + 1]

\* Digit j of the digits after the point times n, with the carry from below.
RECURSIVE Times(_, _, _)
Times(v, j, n) ==
    IF j < 1 THEN 0 ELSE Digit(v, j) * n + Times(v, j - 1, n) \div factor

\* f"{bytes_val:.2f}", in hundredths: the nearest to the exact value, ties to
\* even; bytes_val < factor here.
Hundredths(v) ==
    LET top   == Times(v, v.point, 100)
        q     == top \div factor
        rem   == top % factor
        lower == \E j \in 1..(v.point - 1) : Times(v, j, 100) % factor # 0
        up    == \/ 2 * rem > factor
                 \/ 2 * rem = factor /\ (lower \/ q % 2 = 1)
    IN  Digit(v, v.point + 1) * 100 + q + (IF up THEN 1 ELSE 0)

None == [none |-> TRUE, unit |-> "", hundredths |-> 0]

Formatted(v, unit) == [none |-> FALSE, unit |-> unit, hundredths |-> Hundredths(v)]

RECURSIVE SizeLoop(_, _)
SizeLoop(v, u) ==
    IF u > Len(Units) THEN None
    ELSE IF LessThanFactor(v) THEN Formatted(v, Units[u])
    ELSE SizeLoop(DivideByFactor(v), u + 1)

get_size(digits) == SizeLoop([digits |-> digits, point |-> 0], 1)

\* The byte counts get_size is called on: hi * 1024^e + lo * 1024^(e-1), and
\* the numbers of up to MaxExp + 1 equal digits (1024^6 - 1 is one of them).
MaxExp == 6
SampleDigits == {0, 1, 5, 128, 384, 512, 1018, 1019, 1023}

ByteCount(hi, lo, e) ==
    [j \in 1..(e + 1) |-> IF j = e + 1 THEN hi ELSE IF j = e THEN lo ELSE 0]

ByteCounts ==
    {ByteCount(hi, lo, e) : hi \in SampleDigits, lo \in SampleDigits, e \in 0..MaxExp}
      \cup {[j \in 1..n |-> d] : d \in SampleDigits, n \in 1..(MaxExp + 1)}

(***************************************************************************)
(* export_to_text, as the characters it writes.  A text is a sequence of   *)
(* newlines and of (non-empty) runs of other characters.                   *)
(***************************************************************************)
NL == "\n"
Sep60 == "============================================================"

\* widget.get(1.0, tk.END): the content and the newline that ends a Text widget.
WidgetGet(content) == content \o <<NL>>

\* The five f.write calls for one tab, each with the characters it writes.
SectionWrites(name, content) ==
    << <<NL, Sep60, NL>>, <<Upper(name), NL>>, <<Sep60, NL, NL>>,
       WidgetGet(content), <<NL>> >>

\* The f.write calls of the loop over the first k tabs, in order.
RECURSIVE WritesOf(_, _)
WritesOf(texts, k) ==
    IF k = 0 THEN <<>>
    ELSE WritesOf(texts, k - 1) \o SectionWrites(Tabs[k], texts[Tabs[k]])

\* All the f.write calls of an export.
AllWrites(texts) == WritesOf(texts, Len(Tabs))

\* The file after the first n f.write calls.
RECURSIVE WrittenTo(_, _)
WrittenTo(texts, n) ==
    IF n = 0 THEN <<>>
    ELSE WrittenTo(texts, n - 1) \o AllWrites(texts)[n]

\* The file of a successful export of the tabs' contents.
Written(texts) == WrittenTo(texts, Len(AllWrites(texts)))

\* The first m runs of the characters w and the first j characters of the
\* next run.
Cut(w, m, j) ==
    SubSeq(w, 1, m) \o (IF j = 0 THEN <<>> ELSE <<SubSeq(w[m + 1], 1, j)>>)

\* What a failed export may leave of the characters w it was writing: the
\* writes go through the buffer of the text file, which is flushed when it
\* fills and when the file is closed, so the file ends after any number of
\* the characters, inside a write as well as between two.
Beginnings(w) ==
    {Cut(w, m, 0) : m \in 0..Len(w)}
      \cup UNION {{Cut(w, m, j) : j \in 1..(Len(w[m + 1]) - 1)} :
                     m \in 0..(Len(w) - 1)}

\* Contents of a tab: nothing; a line; a text with separator lines, as
\* get_components_summary builds it; a text that holds the lines export_to_text
\* writes before the All Components section.
SampleTexts ==
    { <<>>,
      <<"x">>,
      <<"ALL COMPONENTS - QUICK OVERVIEW", NL, Sep60, NL, NL, "x", NL,
        NL, Sep60, NL, NL, "x">>,
      <<NL, NL, NL, Sep60, NL, "ALL COMPONENTS", NL, Sep60, NL, NL>> }

\* The contents of the nine tabs, the first two drawn from the samples.
SlotSets ==
    { [name \in TabNames |->
          IF name = "Summary" THEN a ELSE IF name = "All Components" THEN b
          ELSE <<"x">>] : a \in SampleTexts, b \in SampleTexts }

(***************************************************************************)
(* The collectors with fallback chains.  The host is an environment: the   *)
(* platform and, for each source a collector may ask, how that source      *)
(* answers.  A collector's text is the sequence of its lines, each a label *)
(* and a value; ran is the set of sources it asked, blocks the number of   *)
(* device blocks in the text.                                              *)
(***************************************************************************)
Systems == {"Windows", "Linux", "Darwin"}

\* What platform.system() does: it returns one of the systems, or raises.
SystemCalls == Systems \cup {"raises"}

Sep50 == "=================================================="
Dash50 == "--------------------------------------------------"

Line(label, value) == <<label, value>>

Info(lines, ran, blocks) == [raised |-> FALSE, lines |-> lines, ran |-> ran, blocks |-> blocks]
Raise(ran) == [raised |-> TRUE, lines |-> <<>>, ran |-> ran, blocks |-> 0]

UnknownCPU == "Unknown CPU"
RegistryName == "ProcessorNameString"
WmicName == "wmic cpu name"

\* winreg: the registry query raises or gives the name.  wmic: the tool raises
\* (absent, timeout), ends with a non-zero status, prints the header line only,
\* or prints the name.  processor: what platform.processor() returns.  psutil:
\* the cpu_count, cpu_freq and cpu_percent reads answer or raise.  machine:
\* platform.machine() answers or raises.
CpuEnvs ==
    [system : SystemCalls, winreg : {"raises", "ok"},
     wmic : {"raises", "rc1", "header_only", "ok"},
     processor : {"x86_64", ""}, machine : {"ok", "raises"},
     psutil : {"ok", "raises"}, cpu_freq : BOOLEAN]

cpu_name(env) ==
    IF env.system = "Windows"
    THEN IF env.winreg = "ok" THEN RegistryName
         ELSE CASE env.wmic = "raises" -> env.processor
                [] env.wmic = "ok" -> WmicName
                [] OTHER -> UnknownCPU
    ELSE env.processor

cpu_ran(env) ==
    IF env.system = "Windows"
    THEN {"winreg"}
           \cup (IF env.winreg = "ok" THEN {} ELSE {"wmic"})
           \cup (IF env.winreg # "ok" /\ env.wmic = "raises"
                 THEN {"platform.processor"} ELSE {})
    ELSE {"platform.processor"}

get_cpu_info(env) ==
    IF env.system = "raises" THEN Raise({})
    ELSE IF env.machine = "raises" \/ env.psutil = "raises" THEN Raise(cpu_ran(env))
    ELSE Info(<<Line("CPU INFORMATION", ""), Line(Sep50, ""), Line("", ""),
                Line("Processor: ", cpu_name(env)),
                Line("Architecture: ", "machine"),
                Line("Physical Cores: ", "count"),
                Line("Total Cores: ", "count"), Line("", "")>>
               \o (IF env.cpu_freq
                   THEN <<Line("Max Frequency: ", "MHz"), Line("Min Frequency: ", "MHz"),
                          Line("Current Frequency: ", "MHz"), Line("", "")>>
                   ELSE <<>>)
               \o <<Line("CPU Usage Per Core:", ""), Line("  Core 0: ", "%"),
                    Line("", ""), Line("Total CPU Usage: ", "%")>>,
              cpu_ran(env), 0)

NoGPU == "No GPU information available"

\* nvidia_smi: the tool raises, ends with a non-zero status, prints nothing,
\* prints a line of fewer than seven fields, or prints the line of one GPU.
\* wmic: raises, non-zero status, prints nothing, prints a record without a
\* Name, or prints the record (Name and DriverVersion) of one GPU.
GpuEnvs ==
    [system : SystemCalls,
     nvidia_smi : {"raises", "rc1", "empty", "malformed", "one_gpu"},
     wmic : {"raises", "rc1", "empty", "no_name", "one_gpu"}]

NvidiaPrinted(env) == env.nvidia_smi \in {"malformed", "one_gpu"}
WmicPrinted(env) == env.system = "Windows" /\ env.wmic \in {"no_name", "one_gpu"}
WmicBlock(env) == env.system = "Windows" /\ env.wmic = "one_gpu"

gpu_found(env) == NvidiaPrinted(env) \/ WmicBlock(env)

get_gpu_info(env) ==
    IF env.system = "raises" THEN Raise({"nvidia-smi"})
    ELSE
    Info(<<Line("GPU INFORMATION", ""), Line(Sep50, ""), Line("", "")>>
           \o (IF NvidiaPrinted(env)
               THEN <<Line("NVIDIA GPU(s):", ""), Line("", "")>> ELSE <<>>)
           \o (IF env.nvidia_smi = "one_gpu"
               THEN <<Line("GPU 0: ", "name"), Line("  Driver Version: ", "version"),
                      Line("  Temperature: ", "C"), Line("  Memory Total: ", "MB"),
                      Line("  Memory Used: ", "MB"), Line("  Memory Free: ", "MB"),
                      Line("  GPU Utilization: ", "%"), Line("", "")>>
               ELSE <<>>)
           \o (IF WmicPrinted(env) /\ ~NvidiaPrinted(env)
               THEN <<Line("Detected GPU(s):", ""), Line("", "")>> ELSE <<>>)
           \o (IF WmicBlock(env)
               THEN <<Line("name", ""), Line("  Driver: ", "version"), Line("", "")>>
               ELSE <<>>)
           \o (IF gpu_found(env) THEN <<>> ELSE <<Line(NoGPU, "")>>),
         {"nvidia-smi"} \cup (IF env.system = "Windows" THEN {"wmic"} ELSE {}),
         (IF env.nvidia_smi = "one_gpu" THEN 1 ELSE 0) + (IF WmicBlock(env) THEN 1 ELSE 0))

\* baseboard, bios: the PowerShell query raises, ends with a non-zero status
\* or no output, prints what is not JSON, or prints the JSON object.  dmi: the
\* files under /sys/devices/virtual/dmi/id can be read or not.  temps, battery:
\* the psutil sensor call raises (or does not exist on the platform), returns
\* nothing, or returns readings.  wmi_temp: the thermal-zone query.
Query == {"raises", "rc1", "bad_json", "ok"}

MoboEnvs ==
    [system : SystemCalls, baseboard : Query, bios : Query, dmi : {"raises", "ok"},
     temps : {"raises", "none", "ok"}, wmi_temp : {"raises", "rc1", "ok"},
     battery : {"raises", "none", "ok"}]

Unavailable == "Unavailable: "

\* The BIOS part, reached when the baseboard query did not raise.  json is
\* imported only where the baseboard query printed something, and is a local
\* name of the function: reading it after a baseboard query that printed
\* nothing raises, into the handler of the whole Windows branch.
BiosLines(env) ==
    <<Line("", ""), Line(Dash50, ""), Line("BIOS Information:", ""), Line(Dash50, ""),
      Line("", "")>>
      \o CASE env.bios = "raises" -> <<Line(Unavailable, "error")>>
           [] env.bios = "rc1" -> <<Line("BIOS information unavailable", "")>>
           [] env.bios \in {"bad_json", "ok"} /\ env.baseboard = "rc1" ->
                  <<Line(Unavailable, "error")>>
           [] env.bios = "bad_json" -> <<Line("Could not parse BIOS information", "")>>
           [] OTHER -> <<Line("Manufacturer: ", "bios"), Line("Name: ", "bios"),
                         Line("Version: ", "bios"), Line("Release Date: ", "bios")>>

BoardLines(env) ==
    CASE env.system = "Windows" ->
           (CASE env.baseboard = "raises" -> <<Line(Unavailable, "error")>>
              [] env.baseboard = "rc1" ->
                     <<Line("Motherboard information unavailable", "")>> \o BiosLines(env)
              [] env.baseboard = "bad_json" ->
                     <<Line("Could not parse motherboard information", "")>>
                         \o BiosLines(env)
              [] OTHER ->
                     <<Line("Manufacturer: ", "board"), Line("Model: ", "board"),
                       Line("Version: ", "board"), Line("Serial Number: ", "board")>>
                         \o BiosLines(env))
      [] env.system = "Linux" ->
           (IF env.dmi = "ok"
            THEN <<Line("Manufacturer: ", "board"), Line("Product: ", "board"),
                   Line("Version: ", "board")>>
            ELSE <<Line("Unavailable (may need root)", "")>>)
      [] OTHER -> <<Line("Not available on this platform", "")>>

temp_found(env) ==
    env.temps = "ok" \/ (env.system = "Windows" /\ env.wmi_temp = "ok")

TempLines(env) ==
    <<Line("", ""), Line(Sep50, ""), Line("TEMPERATURE SENSORS", ""), Line(Sep50, ""),
      Line("", "")>>
      \o CASE env.temps = "ok" -> <<Line("sensor:", ""), Line("  Sensor: ", "C"), Line("", "")>>
           [] env.system = "Windows" /\ env.wmi_temp = "ok" ->
                  <<Line("CPU Temperature: ", "C"), Line("", "")>>
           [] OTHER -> <<Line("Temperature sensors not available.", ""), Line("", ""),
                         Line("Note: Windows does not expose temperature sensors through standard APIs.", ""),
                         Line("For temperature monitoring on Windows, use:", ""),
                         Line("  - HWMonitor (https://www.cpuid.com/softwares/hwmonitor.html)", ""),
                         Line("  - Core Temp (https://www.alcpu.com/CoreTemp/)", ""),
                         Line("  - Open Hardware Monitor (https://openhardwaremonitor.org/)", ""),
                         Line("", "")>>

BatteryLines(env) ==
    <<Line("", ""), Line(Sep50, ""), Line("POWER / BATTERY", ""), Line(Sep50, ""),
      Line("", "")>>
      \o CASE env.battery = "ok" -> <<Line("Battery: ", "%"), Line("Power Plugged: ", "Yes")>>
           [] env.battery = "none" -> <<Line("No battery (desktop system)", "")>>
           [] OTHER -> <<Line("Battery info unavailable", "")>>

mobo_ran(env) ==
    (IF env.system = "Windows"
     THEN {"baseboard"} \cup (IF env.baseboard = "raises" THEN {} ELSE {"bios"})
     ELSE IF env.system = "Linux" THEN {"dmi"} ELSE {})
      \cup {"sensors_temperatures"}
      \cup (IF env.system = "Windows" /\ env.temps # "ok" THEN {"wmi_temp"} ELSE {})
      \cup {"sensors_battery"}

get_motherboard_info(env) ==
    IF env.system = "raises" THEN Raise({})
    ELSE
    Info(<<Line("MOTHERBOARD INFORMATION", ""), Line(Sep50, ""), Line("", "")>>
           \o BoardLines(env) \o TempLines(env) \o BatteryLines(env),
         mobo_ran(env), 0)

(***************************************************************************)
(* The calls                                                               *)
(***************************************************************************)
Calls_get_size == {Call("get_size", b) : b \in ByteCounts}

\* export_to_text takes no argument: it reads the text widgets.
Calls_export_to_text == {Call("export_to_text", <<>>)}

Return_get_size == Return("get_size", get_size(invoked.args))

Calls_get_cpu_info == {Call("get_cpu_info", env) : env \in CpuEnvs}
Calls_get_gpu_info == {Call("get_gpu_info", env) : env \in GpuEnvs}
Calls_get_motherboard_info == {Call("get_motherboard_info", env) : env \in MoboEnvs}

Return_get_cpu_info == Return("get_cpu_info", get_cpu_info(invoked.args))
Return_get_gpu_info == Return("get_gpu_info", get_gpu_info(invoked.args))
Return_get_motherboard_info ==
    Return("get_motherboard_info", get_motherboard_info(invoked.args))

\* export_to_text on the characters of the tabs' texts: the sections of all
\* the tabs are written and the status line says so, or open, a write or the
\* closing of the file raises and the status line reports the failure; the
\* file then holds a beginning of the characters, which may end inside a
\* section and inside one f.write.  The method returns nothing.
Return_export_to_text ==
    /\ invoked.fn = "export_to_text"
    /\ ~returned.done
    /\ \E ok \in BOOLEAN, left \in Beginnings(Written(text)) :
          /\ ok => left = Written(text)
          /\ file' = left
          /\ status_label' = IF ok THEN Exported ELSE ExportFailed
    /\ event' = "export_to_text"
    /\ returned' = Returned(None)
    /\ UNCHANGED <<text, wstate, scan_button, threads, after_queue, invoked>>

\* The window as constructed; for a call of export_to_text the tabs hold
\* texts, given by their characters.
InitCalls ==
    /\ invoked \in Calls_get_size \cup Calls_export_to_text \cup Calls_get_cpu_info
                     \cup Calls_get_gpu_info \cup Calls_get_motherboard_info
    /\ returned = NoResult
    /\ IF invoked.fn = "export_to_text"
       THEN text \in SlotSets
       ELSE text = [name \in TabNames |-> Empty]
    /\ wstate = [name \in TabNames |-> "normal"]
    /\ scan_button = "normal"
    /\ status_label = Ready
    /\ threads = <<>>
    /\ after_queue = <<>>
    /\ file = <<>>
    /\ event = "mainloop"

NextCalls ==
    \/ Return_get_size
    \/ Return_export_to_text
    \/ Return_get_cpu_info
    \/ Return_get_gpu_info
    \/ Return_get_motherboard_info

SpecCalls == InitCalls /\ [][NextCalls]_vars

\* C14 as stated: for every byte count get_size returns a formatted value,
\* never none, whose magnitude is below 1024 and whose unit is the prefix of
\* the highest power of 1024 not above the byte count.
C14_SizeInRangeWithUnit ==
    (invoked.fn = "get_size" /\ returned.done) =>
        /\ ~returned.value.none
        /\ returned.value.hundredths < factor * 100
        /\ TopDigit(invoked.args) <= Len(Units)
        /\ returned.value.unit = Units[IF TopDigit(invoked.args) = 0 THEN 1
                                       ELSE TopDigit(invoked.args)]

\* C12 as stated: the contents of the tabs can be read back from the file of
\* a successful export, each section's body being the tab's text and nothing
\* else; so no other contents of the tabs are exported to the same file.
C12_RoundTrip ==
    (invoked.fn = "export_to_text" /\ returned.done /\ status_label = Exported) =>
        \A texts \in SlotSets : Written(texts) = file => texts = text

\* A line of the text carries one of the markers.
HasMarker(lines, markers) ==
    \E j \in DOMAIN lines : lines[j][1] \in markers \/ lines[j][2] \in markers

Failing == {"raises", "rc1"}

\* Every external tool fails or is absent and no sensor API answers; the
\* platform and psutil reads made outside any try, which are no external
\* tool, answer.
AllSourcesFail ==
    CASE invoked.fn = "get_cpu_info" ->
           /\ invoked.args.system \in Systems
           /\ invoked.args.winreg = "raises"
           /\ invoked.args.wmic \in Failing
           /\ invoked.args.machine = "ok"
           /\ invoked.args.psutil = "ok"
      [] invoked.fn = "get_gpu_info" ->
           /\ invoked.args.system \in Systems
           /\ invoked.args.nvidia_smi \in Failing
           /\ invoked.args.wmic \in Failing
      [] invoked.fn = "get_motherboard_info" ->
           /\ invoked.args.system \in Systems
           /\ invoked.args.baseboard \in Failing
           /\ invoked.args.bios \in Failing
           /\ invoked.args.dmi = "raises"
           /\ invoked.args.temps \in {"raises", "none"}
           /\ invoked.args.wmi_temp \in Failing
           /\ invoked.args.battery \in {"raises", "none"}
      [] OTHER -> FALSE

Markers ==
    CASE invoked.fn = "get_cpu_info" -> {UnknownCPU}
      [] invoked.fn = "get_gpu_info" -> {NoGPU}
      [] OTHER -> {"Motherboard information unavailable", Unavailable,
                   "Unavailable (may need root)", "Not available on this platform"}

\* C15 as stated: when every external tool fails and no sensor API answers,
\* the CPU, GPU and Motherboard collectors each return, without raising, a
\* non-empty text that carries the category's unavailability marker, on every
\* platform.
C15_MarkerWhenAllSourcesFail ==
    (returned.done /\ AllSourcesFail) =>
        /\ ~returned.value.raised
        /\ returned.value.lines # <<>>
        /\ HasMarker(returned.value.lines, Markers)

\* C16 as stated: get_gpu_info asks the device enumeration (wmic) only if
\* nvidia-smi failed or printed nothing, and a text without a GPU block
\* carries the no-GPU marker.
C16_GpuChain ==
    (returned.done /\ invoked.fn = "get_gpu_info" /\ ~returned.value.raised) =>
        /\ "wmic" \in returned.value.ran =>
               invoked.args.nvidia_smi \in {"raises", "rc1", "empty"}
        /\ returned.value.blocks = 0 => HasMarker(returned.value.lines, {NoGPU})

\* The name get_cpu_info reports.
ReportedName ==
    LET lines == returned.value.lines
    IN  lines[CHOOSE j \in DOMAIN lines : lines[j][1] = "Processor: "][2]

\* C17 as stated: on Windows get_cpu_info asks the registry, then wmic, then
\* the generic processor string, each only if the one before failed; it
\* reports the name of the first that succeeds, and the generic processor
\* string whenever neither the registry nor wmic produced a name, by raising
\* or by a failure status.
C17_CpuNameChain ==
    (returned.done /\ invoked.fn = "get_cpu_info" /\ invoked.args.system = "Windows"
       /\ ~returned.value.raised) =>
        LET env == invoked.args
            ran == returned.value.ran
        IN  /\ "wmic" \in ran <=> env.winreg # "ok"
            /\ "platform.processor" \in ran <=> (env.winreg # "ok" /\ env.wmic # "ok")
            /\ ReportedName = IF env.winreg = "ok" THEN RegistryName
                              ELSE IF env.wmic = "ok" THEN WmicName
                              ELSE env.processor
====
